---- MODULE Spec2Model ----
(***************************************************************************)
(* A model of doc2vec_sentiment_classifier.ipynb: the text cleaning        *)
(* function tokenize_text, the streaming corpus TxtCorpus, and the linear  *)
(* pipeline of cells 5-7 (vocabulary building, the training/evaluation     *)
(* loop, the evaluation of the concatenated variants, the final print).    *)
(* Calls into gensim and scikit-learn are black boxes: their results are   *)
(* kept as symbolic terms that record the arguments of the call.           *)
(***************************************************************************)
EXTENDS Integers, Sequences, FiniteSets, TLC

VARIABLES
    pc,             \* position in the notebook (or "corpus" / "tokenize")
    data,           \* the dataset returned by tfds.load: part -> records
    td_reviews,     \* the TxtCorpus object
    gen,            \* the generator created by the last __iter__ call
    consumed,       \* documents the consumer received from that generator
    stdout,         \* tags printed by __iter__ during that pass
    passes,         \* number of __iter__ calls made so far
    models_by_name, \* the ordered dict models_by_name
    model_state,    \* state of the three Doc2Vec objects of models
    loop,           \* loop variables of cells 5 and 6
    ev,             \* local variables of the running train_lr_evaluate
    accuracies,     \* the dict accuracies
    in_progress,    \* library calls that were entered and have not returned
    fed,            \* history: documents handed to build_vocab and train
    returned,       \* history: arguments of the evaluations that returned
    printed,        \* what pprint wrote
    cv_scores,      \* the mean cross-validated score of each candidate
    text,           \* argument of tokenize_text
    tokens          \* its result

vars == <<pc, data, td_reviews, gen, consumed, stdout, passes, models_by_name,
          model_state, loop, ev, accuracies, in_progress, fed, returned,
          printed, cv_scores, text, tokens>>

(***************************************************************************)
(* Bounds of the model.                                                    *)
(***************************************************************************)
MaxLen == 5         \* longest text given to tokenize_text
MaxRecs == 2        \* most records in one part of the dataset
MaxParts == 3       \* longest parts list of a TxtCorpus
MaxPasses == 2      \* most passes over a TxtCorpus
MaxScore == 1       \* highest cross-validated score of a candidate

(***************************************************************************)
(* tokenize_text                                                           *)
(***************************************************************************)
Alphabet == {"<", ">", "a", " ", "\n"}

\* what str.strip() and str.split() treat as white space, within Alphabet
Whitespace == {" ", "\n"}

CharAt(s, i) == SubSeq(s, i, i)

RECURSIVE Strings(_)
Strings(n) ==
    IF n = 0 THEN {""}
    ELSE LET shorter == Strings(n - 1)
         IN  shorter \cup {s \o c : s \in {t \in shorter : Len(t) = n - 1},
                                    c \in Alphabet}

\* '.*?>' tried at position q: the position of the first '>' that only
\* characters other than a line break separate from q, or 0 (no match).
RECURSIVE LazyTagEnd(_, _)
LazyTagEnd(s, q) ==
    IF q > Len(s) THEN 0
    ELSE IF CharAt(s, q) = ">" THEN q
    ELSE IF CharAt(s, q) = "\n" THEN 0
    ELSE LazyTagEnd(s, q + 1)

\* the pattern '<.+?>' instead: it needs a character inside the tag
cleanr_NonEmpty(s, p) ==
    IF p + 1 <= Len(s) /\ CharAt(s, p) = "<" /\ CharAt(s, p + 1) # "\n"
    THEN LazyTagEnd(s, p + 2) ELSE 0

\* cleanr = re.compile('<.*?>'): end of the match that starts at p, or 0
cleanr(s, p) ==
    IF p <= Len(s) /\ CharAt(s, p) = "<" THEN LazyTagEnd(s, p + 1) ELSE 0

\* re.sub(cleanr, '\n', text), scanning from position p
RECURSIVE SubTags(_, _)
SubTags(s, p) ==
    IF p > Len(s) THEN ""
    ELSE IF cleanr(s, p) # 0 THEN "\n" \o SubTags(s, cleanr(s, p) + 1)
    ELSE CharAt(s, p) \o SubTags(s, p + 1)

\* re.sub(" +", " ", temp), scanning from position p
RECURSIVE SubSpaces(_, _)
SubSpaces(s, p) ==
    IF p > Len(s) THEN ""
    ELSE IF CharAt(s, p) = " " /\ p > 1 /\ CharAt(s, p - 1) = " "
         THEN SubSpaces(s, p + 1)
    ELSE CharAt(s, p) \o SubSpaces(s, p + 1)

RECURSIVE LStrip(_)
LStrip(s) ==
    IF Len(s) > 0 /\ CharAt(s, 1) \in Whitespace
    THEN LStrip(SubSeq(s, 2, Len(s))) ELSE s

RECURSIVE RStrip(_)
RStrip(s) ==
    IF Len(s) > 0 /\ CharAt(s, Len(s)) \in Whitespace
    THEN RStrip(SubSeq(s, 1, Len(s) - 1)) ELSE s

\* temp.strip()
Strip(s) == RStrip(LStrip(s))

\* str.split(): cur is the token being read from position p on
RECURSIVE Split(_, _, _)
Split(s, p, cur) ==
    IF p > Len(s) THEN (IF cur = "" THEN <<>> ELSE <<cur>>)
    ELSE IF CharAt(s, p) \in Whitespace
         THEN (IF cur = "" THEN <<>> ELSE <<cur>>) \o Split(s, p + 1, "")
    ELSE Split(s, p + 1, cur \o CharAt(s, p))

\* gensim.utils.to_unicode of a str returns it
to_unicode(s) == s

tokenize_text(t) ==
    LET temp1 == SubTags(t, 1)
        temp2 == SubSpaces(temp1, 1)
        clean == Strip(temp2)
    IN  Split(to_unicode(clean), 1, "")

(***************************************************************************)
(* The dataset and TxtCorpus                                               *)
(***************************************************************************)
\* the splits of imdb_reviews, as TxtCorpus.__init__ lists them by default
DefaultParts == <<"train", "test", "unsupervised">>

PartNames == {DefaultParts[k] : k \in 1..Len(DefaultParts)}

\* texts of reviews the model draws records from
SampleTexts == <<"a <a>a", "a<\n>", "<a> a  a", "a">>

\* f"{i}": a tag without the part
Tag_IndexOnly(part, i) == ToString(i)

\* f"{part}-{i}"
Tag(part, i) == part \o "-" \o ToString(i)

\* TaggedDocument(tokens, [f"{part}-{i}"])
TaggedDocument(words, tags) == [words |-> words, tags |-> tags]

\* TxtCorpus.__init__: a list subclass that never calls list.__init__, so
\* the list itself (items) is empty
TxtCorpus(tf_dataset, parts) ==
    [tf_dataset |-> tf_dataset, parts |-> parts, items |-> <<>>]

\* The generator of __iter__ stands before record i (zero-based) of part
\* number p; NextPos skips the parts that are exhausted.
RECURSIVE NextPos(_, _)
NextPos(c, g) ==
    IF g.p > Len(c.parts) THEN g
    ELSE IF g.i >= Len(c.tf_dataset[c.parts[g.p]])
         THEN NextPos(c, [g EXCEPT !.p = g.p + 1, !.i = 0])
    ELSE g

Exhausted(c, g) == NextPos(c, g).p > Len(c.parts)

\* the document the generator yields next
YieldDoc(c, g) ==
    LET n    == NextPos(c, g)
        part == c.parts[n.p]
        line == c.tf_dataset[part][n.i + 1]
    IN  TaggedDocument(tokenize_text(line.text), <<Tag(part, n.i)>>)

\* the generator after that yield
Advance(c, g) == [NextPos(c, g) EXCEPT !.i = @ + 1]

PrintEvery == 10000

\* the line __iter__ prints before the yield, if any
Printed(c, g) ==
    LET n == NextPos(c, g)
    IN  IF n.i % PrintEvery < 1 THEN <<Tag(c.parts[n.p], n.i)>> ELSE <<>>

\* a generator that also stores what it yields in the list
SelfAfterYield_Append(c, doc) == [c EXCEPT !.items = Append(@, doc)]

\* the object itself after its generator yielded doc: __iter__ assigns to
\* no attribute and adds nothing to the list
SelfAfterYield(c, doc) == c

NoGen == [p |-> 0, i |-> 0, state |-> "none"]

\* calling __iter__ makes a generator that stands at the beginning
NewGen == [p |-> 1, i |-> 0, state |-> "running"]

\* all documents of the rest of a pass, from generator state g on
RECURSIVE RestOfPass(_, _)
RestOfPass(c, g) ==
    IF Exhausted(c, g) THEN <<>>
    ELSE <<YieldDoc(c, g)>> \o RestOfPass(c, Advance(c, g))

\* what a consumer that iterates the corpus to the end receives
WholePass(c) == RestOfPass(c, NewGen)

(***************************************************************************)
(* Variable groups and the values of the variables a specification does    *)
(* not use                                                                 *)
(***************************************************************************)
tokVars == <<text, tokens>>

genVars == <<gen, consumed, stdout, passes>>

pipeVars == <<models_by_name, model_state, loop, ev, accuracies, in_progress,
              fed, returned, printed>>

NoEval == [model |-> <<>>, X_train |-> <<>>, Y_train |-> <<>>,
           X_test |-> <<>>, Y_test |-> <<>>, search |-> <<>>, best |-> <<>>]

TokIdle == text = "" /\ tokens = <<>>

ScoresIdle == cv_scores = <<>>

GenIdle == gen = NoGen /\ consumed = <<>> /\ stdout = <<>> /\ passes = 0

PipeIdle ==
    /\ models_by_name = <<>>
    /\ model_state = <<>>
    /\ loop = [i |-> 0, epoch |-> 0, second |-> FALSE]
    /\ ev = NoEval
    /\ accuracies = <<>>
    /\ in_progress = {}
    /\ fed = {}
    /\ returned = {}
    /\ printed = <<>>

Record(t, l) == [text |-> t, label |-> l]

\* a part of n records whose texts and labels are set by their position
FixedPart(n) ==
    [k \in 1..n |-> Record(SampleTexts[((k - 1) % Len(SampleTexts)) + 1], k % 2)]

\* datasets that differ in the sizes of their parts
SizedDatasets ==
    {[train |-> FixedPart(a), test |-> FixedPart(b), unsupervised |-> FixedPart(c)] :
        a \in 0..MaxRecs, b \in 0..MaxRecs, c \in 0..MaxRecs}

(***************************************************************************)
(* SpecTok: tokenize_text applied to every text of at most MaxLen          *)
(* characters                                                              *)
(***************************************************************************)
InitTok ==
    /\ pc = "tokenize"
    /\ text \in Strings(MaxLen)
    /\ tokens = <<>>
    /\ data = [train |-> <<>>, test |-> <<>>, unsupervised |-> <<>>]
    /\ td_reviews = TxtCorpus(data, <<>>)
    /\ GenIdle
    /\ PipeIdle
    /\ ScoresIdle

TokenizeCall ==
    /\ pc = "tokenize"
    /\ tokens' = tokenize_text(text)
    /\ pc' = "tokenized"
    /\ UNCHANGED <<text, data, cv_scores, td_reviews, genVars, pipeVars>>

NextTok == TokenizeCall

SpecTok == InitTok /\ [][NextTok]_vars

(***************************************************************************)
(* SpecCorpus: a TxtCorpus over any parts list, iterated MaxPasses times   *)
(***************************************************************************)
RECURSIVE PartsLists(_)
PartsLists(n) ==
    IF n = 0 THEN {<<>>}
    ELSE LET shorter == PartsLists(n - 1)
         IN  shorter \cup {Append(l, q) : l \in {m \in shorter : Len(m) = n - 1},
                                          q \in PartNames}

InitCorpus ==
    /\ pc = "corpus"
    /\ data \in SizedDatasets
    /\ td_reviews \in {TxtCorpus(data, parts) : parts \in PartsLists(MaxParts)}
    /\ GenIdle
    /\ PipeIdle
    /\ TokIdle
    /\ ScoresIdle

\* iter(corpus) on an object that keeps one generator for all its passes:
\* a later pass goes on where the one before stopped
IterCall_Resume ==
    /\ pc = "corpus"
    /\ passes < MaxPasses
    /\ gen' = IF passes = 0 THEN NewGen ELSE [gen EXCEPT !.state = "running"]
    /\ consumed' = <<>>
    /\ stdout' = <<>>
    /\ passes' = passes + 1
    /\ UNCHANGED <<pc, data, cv_scores, td_reviews, pipeVars, tokVars>>

\* iter(corpus): a new generator; nothing of its body has run yet
IterCall ==
    /\ pc = "corpus"
    /\ passes < MaxPasses
    /\ gen' = NewGen
    /\ consumed' = <<>>
    /\ stdout' = <<>>
    /\ passes' = passes + 1
    /\ UNCHANGED <<pc, data, cv_scores, td_reviews, pipeVars, tokVars>>

\* next(generator), when a record is left: the body runs up to the yield
GenYield ==
    /\ pc = "corpus"
    /\ gen.state = "running"
    /\ ~Exhausted(td_reviews, gen)
    /\ consumed' = Append(consumed, YieldDoc(td_reviews, gen))
    /\ stdout' = stdout \o Printed(td_reviews, gen)
    /\ td_reviews' = SelfAfterYield(td_reviews, YieldDoc(td_reviews, gen))
    /\ gen' = Advance(td_reviews, gen)
    /\ UNCHANGED <<pc, data, cv_scores, passes, pipeVars, tokVars>>

\* next(generator), when the loops are over: StopIteration
GenStop ==
    /\ pc = "corpus"
    /\ gen.state = "running"
    /\ Exhausted(td_reviews, gen)
    /\ gen' = [gen EXCEPT !.state = "stopped"]
    /\ UNCHANGED <<pc, data, cv_scores, td_reviews, consumed, stdout, passes, pipeVars, tokVars>>

NextCorpus == IterCall \/ GenYield \/ GenStop

SpecCorpus == InitCorpus /\ [][NextCorpus]_vars

(***************************************************************************)
(* Spec: the pipeline of cells 5 to 7                                      *)
(***************************************************************************)
\* td_reviews = TxtCorpus(data): the default parts, 'test' among them
ReviewParts_Default == DefaultParts

\* td_reviews = TxtCorpus(data, parts=['train', 'unsupervised'])
ReviewParts == <<"train", "unsupervised">>

\* epochs=20 of common_params
Epochs == 20

\* number of entries of the list models
NumModels == 3

\* str(model) of the three entries of models, as the notebook printed them
ModelStr ==
    <<"Doc2Vec(dbow,d100,n5,mc2,t8)",
      "Doc2Vec(\"alpha=0.05\",dm/m,d100,n5,w10,mc2,t8)",
      "Doc2Vec(dm/c,d100,n5,w5,mc2,t8)">>

\* A model object is the list of the indices (in models) of the Doc2Vec
\* objects it is made of: one for a Doc2Vec, two for a ConcatenatedDoc2Vec.
Doc2Vec(m) == <<m>>

ConcatenatedDoc2Vec(ms) == ms

\* a description that names the first model only
Str_First(model) == ModelStr[model[1]]

\* str(model); a ConcatenatedDoc2Vec joins its models' strings with "+"
RECURSIVE Str(_)
Str(model) ==
    IF Len(model) = 1 THEN ModelStr[model[1]]
    ELSE Str(SubSeq(model, 1, Len(model) - 1)) \o "+" \o ModelStr[model[Len(model)]]

\* the concatenated variants stored under their own descriptions
ConcatNames_Str ==
    <<ModelStr[1] \o "+" \o ModelStr[2], ModelStr[1] \o "+" \o ModelStr[3]>>

\* keys under which the concatenated variants are stored in models_by_name
ConcatNames == <<"dbow+dmm", "dbow+dmc">>

\* the models the two variants concatenate: models[0] with models[1], models[2]
ConcatOf == <<<<1, 2>>, <<1, 3>>>>

StartsWith(str, prefix) ==
    Len(str) >= Len(prefix) /\ SubSeq(str, 1, Len(prefix)) = prefix

\* d[key] = value on a dict kept as the list of its items in insertion order
RECURSIVE DictPut(_, _, _)
DictPut(d, key, value) ==
    IF d = <<>> THEN <<[name |-> key, model |-> value]>>
    ELSE IF Head(d).name = key
         THEN <<[name |-> key, model |-> value]>> \o Tail(d)
    ELSE <<Head(d)>> \o DictPut(Tail(d), key, value)

\* d[key]
DictGet(d, key) ==
    (CHOOSE e \in {d[k] : k \in 1..Len(d)} : e.name = key).model

\* a Doc2Vec object before build_vocab
FreshModel ==
    [doctags |-> {}, corpus_count |-> 0, trained_on |-> {}, epochs_done |-> 0,
     train_calls |-> 0]

Range(f) == {f[k] : k \in DOMAIN f}

\* build_vocab(corpus) scans the corpus once: it registers the tags and
\* counts the documents
AfterBuildVocab(st, docs) ==
    [st EXCEPT !.doctags = {d.tags[1] : d \in Range(docs)},
               !.corpus_count = Len(docs)]

\* one epoch of train(corpus, ...): one pass over the corpus
AfterEpoch(st, docs) ==
    [st EXCEPT !.trained_on = @ \cup Range(docs), !.epochs_done = @ + 1]

\* d2v_model.docvecs[tag]: the vector of a Doc2Vec is a term naming the
\* training it comes from; a ConcatenatedDoc2Vec concatenates its models'
Vector(model, tag) ==
    [k \in 1..Len(model) |->
        [of |-> "docvec", model |-> model[k], tag |-> tag,
         trained_on |-> model_state[model[k]].trained_on,
         epochs |-> model_state[model[k]].epochs_done]]

\* whether docvecs[tag] exists (otherwise the lookup raises KeyError)
HasVector(model, tag) ==
    \A k \in 1..Len(model) : tag \in model_state[model[k]].doctags

\* d2v_model.infer_vector(words)
InferVector(model, words) ==
    [k \in 1..Len(model) |->
        [of |-> "inferred", model |-> model[k], words |-> words,
         trained_on |-> model_state[model[k]].trained_on,
         epochs |-> model_state[model[k]].epochs_done]]

\* load_from_model(d2v_model, tf_dataset, part)
load_from_model(d2v_model, tf_dataset, part) ==
    [X |-> [k \in 1..Len(tf_dataset[part]) |-> Vector(d2v_model, Tag(part, k - 1))],
     Y |-> [k \in 1..Len(tf_dataset[part]) |-> tf_dataset[part][k].label]]

\* whether every lookup of load_from_model finds its tag
LoadFinds(d2v_model, tf_dataset, part) ==
    \A k \in 1..Len(tf_dataset[part]) : HasVector(d2v_model, Tag(part, k - 1))

\* infer_from_model(d2v_model, tf_dataset, part)
infer_from_model(d2v_model, tf_dataset, part) ==
    [X |-> [k \in 1..Len(tf_dataset[part]) |->
               InferVector(d2v_model, tokenize_text(tf_dataset[part][k].text))],
     Y |-> [k \in 1..Len(tf_dataset[part]) |-> tf_dataset[part][k].label]]

\* clf.fit(X_test, Y_test): a search fitted on the test embeddings
FitArgs_Test(e) == [X |-> e.X_test, Y |-> e.Y_test]

\* the arguments of clf.fit(X_train, Y_train)
FitArgs(e) == [X |-> e.X_train, Y |-> e.Y_train]

penalty == <<"l1", "l2">>

C == <<"0.0001", "0.001", "0.1", "1", "10", "100">>

solver == <<"liblinear">>

\* hyperparameters = dict(C=C, penalty=penalty, solver=['liblinear'])
hyperparameters == [C |-> C, penalty |-> penalty, solver |-> solver]

\* the candidates of the grid: every combination of one value of each list,
\* the last key changing fastest
ParameterGrid(grid) ==
    [k \in 1..(Len(grid.C) * Len(grid.penalty) * Len(grid.solver)) |->
        [C       |-> grid.C[((k - 1) \div (Len(grid.penalty) * Len(grid.solver))) + 1],
         penalty |-> grid.penalty[(((k - 1) \div Len(grid.solver)) % Len(grid.penalty)) + 1],
         solver  |-> grid.solver[((k - 1) % Len(grid.solver)) + 1]]]

\* cv=5
cv == 5

\* best_index_: the first candidate no other candidate scores above
BestIndex(scores) ==
    CHOOSE b \in DOMAIN scores :
        /\ \A k \in DOMAIN scores : scores[k] <= scores[b]
        /\ \A k \in DOMAIN scores : k < b => scores[k] < scores[b]

\* clf = GridSearchCV(lr, hyperparameters, cv=5, ...) after clf.fit(X, Y):
\* every candidate was scored over cv folds of X, Y
GridSearchCV(grid, folds, X, Y) ==
    [candidates |-> ParameterGrid(grid), folds |-> folds, X |-> X, Y |-> Y,
     mean_test_score |-> cv_scores]

\* an estimator with the first candidate's parameters, whatever the scores
GridSearchFit_First(X, Y) ==
    [of |-> "best_estimator", X |-> X, Y |-> Y,
     params |-> ParameterGrid(hyperparameters)[1]]

\* clf.fit(X, Y) followed by clf.best_estimator_: the candidate of the best
\* score, fitted on X, Y; a term of what it was fitted on
GridSearchFit(X, Y) ==
    [of |-> "best_estimator", X |-> X, Y |-> Y,
     params |-> ParameterGrid(hyperparameters)[BestIndex(cv_scores)]]

\* estimator.score(X, Y)
EstimatorScore(estimator, X, Y) ==
    [of |-> "score", estimator |-> estimator, X |-> X, Y |-> Y]

Call(fn, model) == [fn |-> fn, model |-> model]

\* a part with records of any text of TestTexts and any label
TestTexts == {SampleTexts[1], SampleTexts[2]}

FreeParts ==
    UNION {[1..n -> {Record(t, l) : t \in TestTexts, l \in {0, 1}}] : n \in 1..MaxRecs}

Datasets ==
    {[train |-> FixedPart(a), test |-> te, unsupervised |-> FixedPart(c)] :
        a \in 1..MaxRecs, te \in FreeParts, c \in 0..MaxRecs}

\* all tables of scores the search may find for its candidates
ScoreTables == [1..Len(ParameterGrid(hyperparameters)) -> 0..MaxScore]

\* the table of the pipeline: one candidate scores above the others
NotebookScores ==
    [k \in 1..Len(ParameterGrid(hyperparameters)) |-> IF k = 8 THEN MaxScore ELSE 0]

\* the state when the loop "for model in models" of cell 5 is reached
Init ==
    /\ pc = "vocab_loop"
    /\ data \in Datasets
    /\ td_reviews = TxtCorpus(data, ReviewParts)
    /\ models_by_name = <<>>
    /\ model_state = [m \in 1..NumModels |-> FreshModel]
    /\ loop = [i |-> 1, epoch |-> 0, second |-> FALSE]
    /\ ev = NoEval
    /\ accuracies = <<>>
    /\ in_progress = {}
    /\ fed = {}
    /\ returned = {}
    /\ printed = <<>>
    /\ cv_scores = NotebookScores
    /\ GenIdle
    /\ TokIdle

Feed(fn, m, docs) == {[fn |-> fn, model |-> m, doc |-> d] : d \in Range(docs)}

\* build_vocab started without waiting for it: the loop goes on at once
BuildVocabCall_NoWait ==
    /\ pc = "vocab_loop"
    /\ loop.i <= NumModels
    /\ in_progress' = in_progress \cup {Call("build_vocab", Doc2Vec(loop.i))}
    /\ models_by_name' = DictPut(models_by_name, Str(Doc2Vec(loop.i)), Doc2Vec(loop.i))
    /\ loop' = [loop EXCEPT !.i = @ + 1]
    /\ UNCHANGED <<pc, data, cv_scores, td_reviews, genVars, model_state, ev, accuracies, fed,
                   returned, printed, tokVars>>

\* model.build_vocab(td_reviews) is entered
BuildVocabCall ==
    /\ pc = "vocab_loop"
    /\ loop.i <= NumModels
    /\ in_progress' = in_progress \cup {Call("build_vocab", Doc2Vec(loop.i))}
    /\ pc' = "build_vocab"
    /\ UNCHANGED <<data, cv_scores, td_reviews, genVars, models_by_name, model_state, loop,
                   ev, accuracies, fed, returned, printed, tokVars>>

\* build_vocab scans the corpus and returns; models_by_name[str(model)] = model
BuildVocabReturn ==
    /\ pc = "build_vocab"
    /\ LET m == loop.i
           docs == WholePass(td_reviews)
       IN  /\ model_state' = [model_state EXCEPT ![m] = AfterBuildVocab(@, docs)]
           /\ fed' = fed \cup Feed("build_vocab", m, docs)
           /\ in_progress' = in_progress \ {Call("build_vocab", Doc2Vec(m))}
           /\ models_by_name' = DictPut(models_by_name, Str(Doc2Vec(m)), Doc2Vec(m))
    /\ loop' = [loop EXCEPT !.i = @ + 1]
    /\ pc' = "vocab_loop"
    /\ UNCHANGED <<data, cv_scores, td_reviews, genVars, ev, accuracies, returned, printed,
                   tokVars>>

\* the vocabulary loop left after its first model
ConcatAndCell6_Early ==
    /\ pc = "vocab_loop"
    /\ loop.i > 1
    /\ models_by_name' =
          DictPut(DictPut(models_by_name, ConcatNames[1], ConcatenatedDoc2Vec(ConcatOf[1])),
                  ConcatNames[2], ConcatenatedDoc2Vec(ConcatOf[2]))
    /\ accuracies' = <<>>
    /\ loop' = [loop EXCEPT !.i = 1]
    /\ pc' = "train_loop"
    /\ UNCHANGED <<data, cv_scores, td_reviews, genVars, model_state, ev, in_progress, fed,
                   returned, printed, tokVars>>

\* after the loop: the two concatenated variants, then accuracies = {}
ConcatAndCell6 ==
    /\ pc = "vocab_loop"
    /\ loop.i > NumModels
    /\ models_by_name' =
          DictPut(DictPut(models_by_name, ConcatNames[1], ConcatenatedDoc2Vec(ConcatOf[1])),
                  ConcatNames[2], ConcatenatedDoc2Vec(ConcatOf[2]))
    /\ accuracies' = <<>>
    /\ loop' = [loop EXCEPT !.i = 1]
    /\ pc' = "train_loop"
    /\ UNCHANGED <<data, cv_scores, td_reviews, genVars, model_state, ev, in_progress, fed,
                   returned, printed, tokVars>>

\* an item of models_by_name whose name does not start with "Doc2Vec"
LoopSkip ==
    /\ pc = "train_loop"
    /\ loop.i <= Len(models_by_name)
    /\ ~StartsWith(models_by_name[loop.i].name, "Doc2Vec")
    /\ loop' = [loop EXCEPT !.i = @ + 1]
    /\ UNCHANGED <<pc, data, cv_scores, td_reviews, genVars, models_by_name, model_state, ev,
                   accuracies, in_progress, fed, returned, printed, tokVars>>

\* a loop body that evaluates the model without training it first
TrainCall_Skipped ==
    /\ pc = "train_loop"
    /\ loop.i <= Len(models_by_name)
    /\ StartsWith(models_by_name[loop.i].name, "Doc2Vec")
    /\ pc' = "evaluate"
    /\ UNCHANGED <<data, cv_scores, td_reviews, genVars, models_by_name, model_state, loop, ev,
                   accuracies, in_progress, fed, returned, printed, tokVars>>

\* model.train(td_reviews, ...) is entered
TrainCall ==
    /\ pc = "train_loop"
    /\ loop.i <= Len(models_by_name)
    /\ StartsWith(models_by_name[loop.i].name, "Doc2Vec")
    /\ LET model == models_by_name[loop.i].model
       IN  /\ in_progress' = in_progress \cup {Call("train", model)}
           /\ model_state' = [m \in 1..NumModels |->
                 IF m \in Range(model)
                 THEN [model_state[m] EXCEPT !.train_calls = @ + 1]
                 ELSE model_state[m]]
    /\ loop' = [loop EXCEPT !.epoch = 0]
    /\ pc' = "train"
    /\ UNCHANGED <<data, cv_scores, td_reviews, genVars, models_by_name, ev, accuracies, fed,
                   returned, printed, tokVars>>

\* one epoch of the running train call
TrainEpoch ==
    /\ pc = "train"
    /\ loop.epoch < Epochs
    /\ LET m == models_by_name[loop.i].model[1]
           docs == WholePass(td_reviews)
       IN  /\ model_state' = [model_state EXCEPT ![m] = AfterEpoch(@, docs)]
           /\ fed' = fed \cup Feed("train", m, docs)
    /\ loop' = [loop EXCEPT !.epoch = @ + 1]
    /\ UNCHANGED <<pc, data, cv_scores, td_reviews, genVars, models_by_name, ev, accuracies,
                   in_progress, returned, printed, tokVars>>

\* train returns after its last epoch
TrainReturn ==
    /\ pc = "train"
    /\ loop.epoch = Epochs
    /\ in_progress' = in_progress \ {Call("train", models_by_name[loop.i].model)}
    /\ pc' = "evaluate"
    /\ UNCHANGED <<data, cv_scores, td_reviews, genVars, models_by_name, model_state, loop, ev,
                   accuracies, fed, returned, printed, tokVars>>

\* the model the next train_lr_evaluate call is given
EvalModel ==
    IF loop.second THEN DictGet(models_by_name, ConcatNames[loop.i])
    ELSE models_by_name[loop.i].model

\* train_lr_evaluate(model, data) is entered
EvaluateCall ==
    /\ pc = "evaluate"
    /\ in_progress' = in_progress \cup {Call("train_lr_evaluate", EvalModel)}
    /\ ev' = [NoEval EXCEPT !.model = EvalModel]
    /\ pc' = "load"
    /\ UNCHANGED <<data, cv_scores, td_reviews, genVars, models_by_name, model_state, loop,
                   accuracies, fed, returned, printed, tokVars>>

\* an exception handler that notes the failure in the table
Propagate_Recorded ==
    /\ pc' = "raised"
    /\ in_progress' = {}
    /\ ev' = NoEval
    /\ accuracies' = ("failed" :> 0) @@ accuracies
    /\ UNCHANGED <<data, cv_scores, td_reviews, genVars, models_by_name, model_state, loop,
                   fed, returned, printed, tokVars>>

\* an exception leaves the notebook's code: the cell stops
Propagate ==
    /\ pc' = "raised"
    /\ in_progress' = {}
    /\ ev' = NoEval
    /\ UNCHANGED <<data, cv_scores, td_reviews, genVars, models_by_name, model_state, loop,
                   accuracies, fed, returned, printed, tokVars>>

\* X_train, Y_train = load_from_model(model, data, 'train'); a tag the model
\* does not know raises KeyError
LoadTrain ==
    /\ pc = "load"
    /\ IF LoadFinds(ev.model, data, "train")
       THEN /\ ev' = [ev EXCEPT !.X_train = load_from_model(ev.model, data, "train").X,
                                !.Y_train = load_from_model(ev.model, data, "train").Y]
            /\ pc' = "infer"
            /\ UNCHANGED <<data, cv_scores, td_reviews, genVars, models_by_name, model_state,
                           loop, accuracies, in_progress, fed, returned, printed,
                           tokVars>>
       ELSE Propagate

\* X_test, Y_test = infer_from_model(model, data, 'test')
InferTest ==
    /\ pc = "infer"
    /\ ev' = [ev EXCEPT !.X_test = infer_from_model(ev.model, data, "test").X,
                        !.Y_test = infer_from_model(ev.model, data, "test").Y]
    /\ pc' = "fit"
    /\ UNCHANGED <<data, cv_scores, td_reviews, genVars, models_by_name, model_state, loop,
                   accuracies, in_progress, fed, returned, printed, tokVars>>

\* clf.fit(X_train, Y_train)
Fit ==
    /\ pc = "fit"
    /\ ev' = [ev EXCEPT
                 !.search = GridSearchCV(hyperparameters, cv, FitArgs(ev).X, FitArgs(ev).Y),
                 !.best = GridSearchFit(FitArgs(ev).X, FitArgs(ev).Y)]
    /\ pc' = "score"
    /\ UNCHANGED <<data, cv_scores, td_reviews, genVars, models_by_name, model_state, loop,
                   accuracies, in_progress, fed, returned, printed, tokVars>>

\* return clf.best_estimator_.score(X_test, Y_test), and the assignment
\* accuracies[str(model)] = ... of the caller
ScoreReturn ==
    /\ pc = "score"
    /\ accuracies' = (Str(ev.model) :> EstimatorScore(ev.best, ev.X_test, ev.Y_test))
                        @@ accuracies
    /\ returned' = returned \cup {ev}
    /\ in_progress' = in_progress \ {Call("train_lr_evaluate", ev.model)}
    /\ ev' = NoEval
    /\ loop' = [loop EXCEPT !.i = @ + 1]
    /\ pc' = IF loop.second THEN "concat_loop" ELSE "train_loop"
    /\ UNCHANGED <<data, cv_scores, td_reviews, genVars, models_by_name, model_state, fed,
                   printed, tokVars>>

\* the first loop of cell 6 is over: the loop over the concatenated variants
LoopEnd ==
    /\ pc = "train_loop"
    /\ loop.i > Len(models_by_name)
    /\ loop' = [loop EXCEPT !.i = 1, !.second = TRUE]
    /\ pc' = "concat_loop"
    /\ UNCHANGED <<data, cv_scores, td_reviews, genVars, models_by_name, model_state, ev,
                   accuracies, in_progress, fed, returned, printed, tokVars>>

\* next variant of [models_by_name['dbow+dmm'], models_by_name['dbow+dmc']]
ConcatNext ==
    /\ pc = "concat_loop"
    /\ loop.i <= Len(ConcatNames)
    /\ pc' = "evaluate"
    /\ UNCHANGED <<data, cv_scores, td_reviews, genVars, models_by_name, model_state, loop, ev,
                   accuracies, in_progress, fed, returned, printed, tokVars>>

\* cell 7: pprint(accuracies)
Pprint ==
    /\ pc = "concat_loop"
    /\ loop.i > Len(ConcatNames)
    /\ printed' = accuracies
    /\ pc' = "done"
    /\ UNCHANGED <<data, cv_scores, td_reviews, genVars, models_by_name, model_state, loop, ev,
                   accuracies, in_progress, fed, returned, tokVars>>

\* the library call that is running raises
Raise ==
    /\ in_progress # {}
    /\ Propagate

Next ==
    \/ BuildVocabCall
    \/ BuildVocabReturn
    \/ ConcatAndCell6
    \/ LoopSkip
    \/ TrainCall
    \/ TrainEpoch
    \/ TrainReturn
    \/ EvaluateCall
    \/ LoadTrain
    \/ InferTest
    \/ Fit
    \/ ScoreReturn
    \/ LoopEnd
    \/ ConcatNext
    \/ Pprint
    \/ Raise

Spec == Init /\ [][Next]_vars

(***************************************************************************)
(* SpecGrid: the grid search and the score of train_lr_evaluate, for the   *)
(* first model of the training loop and every table of scores              *)
(***************************************************************************)
\* the dataset of this specification
GridData ==
    [train |-> FixedPart(2), test |-> FixedPart(2), unsupervised |-> FixedPart(1)]

\* the first model after build_vocab and train, the others after build_vocab
GridModels(docs) ==
    [m \in 1..NumModels |->
        IF m = 1
        THEN [AfterBuildVocab(FreshModel, docs) EXCEPT
                 !.trained_on = Range(docs), !.epochs_done = Epochs, !.train_calls = 1]
        ELSE AfterBuildVocab(FreshModel, docs)]

\* the state in which train_lr_evaluate, called for the first model of the
\* training loop, reaches clf.fit
InitGrid ==
    /\ pc = "fit"
    /\ data = GridData
    /\ td_reviews = TxtCorpus(data, ReviewParts)
    /\ model_state = GridModels(WholePass(td_reviews))
    /\ models_by_name =
          DictPut(DictPut(DictPut(DictPut(DictPut(<<>>,
              Str(Doc2Vec(1)), Doc2Vec(1)), Str(Doc2Vec(2)), Doc2Vec(2)),
              Str(Doc2Vec(3)), Doc2Vec(3)),
              ConcatNames[1], ConcatenatedDoc2Vec(ConcatOf[1])),
              ConcatNames[2], ConcatenatedDoc2Vec(ConcatOf[2]))
    /\ loop = [i |-> 1, epoch |-> Epochs, second |-> FALSE]
    /\ ev = [NoEval EXCEPT
                !.model = Doc2Vec(1),
                !.X_train = load_from_model(Doc2Vec(1), data, "train").X,
                !.Y_train = load_from_model(Doc2Vec(1), data, "train").Y,
                !.X_test = infer_from_model(Doc2Vec(1), data, "test").X,
                !.Y_test = infer_from_model(Doc2Vec(1), data, "test").Y]
    /\ accuracies = <<>>
    /\ in_progress = {Call("train_lr_evaluate", Doc2Vec(1))}
    /\ fed = UNION {Feed("build_vocab", m, WholePass(td_reviews)) : m \in 1..NumModels}
                \cup Feed("train", 1, WholePass(td_reviews))
    /\ returned = {}
    /\ printed = <<>>
    /\ GenIdle
    /\ TokIdle
    /\ cv_scores \in ScoreTables

NextGrid == Fit \/ ScoreReturn

SpecGrid == InitGrid /\ [][NextGrid]_vars

(***************************************************************************)
(* Claims about the pipeline (Spec)                                        *)
(***************************************************************************)
IsTagOf(tag, part) == \E i \in 0..MaxRecs : tag = part \o "-" \o ToString(i)

\* C1: every document handed to build_vocab or train, for any of the three
\* models and on every pass, carries one tag of the form 'train-<i>' or
\* 'unsupervised-<i>'; the corpus they iterate does not list the 'test' part.
C1_NoTestInTraining ==
    /\ \A f \in fed :
          /\ Len(f.doc.tags) = 1
          /\ IsTagOf(f.doc.tags[1], "train") \/ IsTagOf(f.doc.tags[1], "unsupervised")
          /\ ~IsTagOf(f.doc.tags[1], "test")
    /\ pc \in {"build_vocab", "train"} =>
          \A q \in 1..Len(td_reviews.parts) : td_reviews.parts[q] # "test"

\* all three models received documents of both parts, in both kinds of call
C1_Witness ==
    /\ pc = "done"
    /\ \A m \in 1..NumModels, fn \in {"build_vocab", "train"} :
          \E f, g \in fed :
              /\ f.fn = fn /\ f.model = m /\ f.doc.tags = <<"train-1">>
              /\ g.fn = fn /\ g.model = m /\ g.doc.tags = <<"unsupervised-0">>

\* model.train was called once for Doc2Vec m, ran all its epochs and returned
TrainCompleted(m) ==
    /\ model_state[m].train_calls = 1
    /\ model_state[m].epochs_done = Epochs
    /\ Call("train", <<m>>) \notin in_progress

\* the evaluations whose train embeddings are loaded
Loaded == {e \in returned \cup {ev} : e.X_train # <<>>}

\* C2: train_lr_evaluate runs for a variant only after model.train has
\* completed for the model, or for both models of a concatenated variant;
\* the train embeddings it loads are those left by the last epoch.
C2_EvaluateAfterTrain ==
    /\ \A c \in in_progress :
          c.fn = "train_lr_evaluate" => \A m \in Range(c.model) : TrainCompleted(m)
    /\ \A e \in Loaded :
          \A k \in 1..Len(e.X_train) :
              \A j \in 1..Len(e.X_train[k]) : e.X_train[k][j].epochs = Epochs

\* the variant dbow+dmc is being evaluated and its train embeddings are loaded
C2_Witness ==
    /\ Call("train_lr_evaluate", <<1, 3>>) \in in_progress
    /\ pc = "score"
    /\ Len(ev.X_train) = 2

\* the evaluations whose grid search is fitted
Fitted == {e \in returned \cup {ev} : e.best # <<>>}

\* the estimator of evaluation e was fitted on the vectors that training gave
\* to the records of the train part, none of them trained on a test
\* document, and on the labels of the train part
FittedOnTrainOnly(e) ==
    /\ e.best.of = "best_estimator"
    /\ Len(e.best.X) = Len(data.train)
    /\ Len(e.best.Y) = Len(data.train)
    /\ \A k \in 1..Len(data.train) :
          /\ e.best.Y[k] = data.train[k].label
          /\ Len(e.best.X[k]) = Len(e.model)
          /\ \A j \in 1..Len(e.model) :
                /\ e.best.X[k][j].of = "docvec"
                /\ e.best.X[k][j].model = e.model[j]
                /\ e.best.X[k][j].tag = "train-" \o ToString(k - 1)
                /\ \A d \in e.best.X[k][j].trained_on : ~IsTagOf(d.tags[1], "test")

\* the dataset with the records of its test part erased
WithoutTest == [data EXCEPT !.test = <<>>]

\* the estimator of evaluation e is the one the train part and the corpus
\* over the dataset without its test records determine: the vector of every
\* train record after all epochs over that corpus, and the train labels
SameWithoutTest(e) ==
    LET corpus == TxtCorpus(WithoutTest, td_reviews.parts)
        vector(m, k) ==
            [of |-> "docvec", model |-> m, tag |-> "train-" \o ToString(k - 1),
             trained_on |-> Range(WholePass(corpus)), epochs |-> Epochs]
    IN  e.best =
            [of |-> "best_estimator",
             X  |-> [k \in 1..Len(WithoutTest.train) |->
                        [j \in 1..Len(e.model) |-> vector(e.model[j], k)]],
             Y  |-> [k \in 1..Len(WithoutTest.train) |-> WithoutTest.train[k].label],
             params |-> ParameterGrid(hyperparameters)[BestIndex(cv_scores)]]

\* the score of evaluation e is that of its fitted estimator on the vectors
\* inferred for the test records and on the test labels
ScoredOnTest(e) ==
    /\ Str(e.model) \in DOMAIN accuracies
    /\ accuracies[Str(e.model)].estimator = e.best
    /\ Len(accuracies[Str(e.model)].X) = Len(data.test)
    /\ \A k \in 1..Len(data.test) :
          /\ accuracies[Str(e.model)].Y[k] = data.test[k].label
          /\ \A j \in 1..Len(e.model) :
                /\ accuracies[Str(e.model)].X[k][j].of = "inferred"
                /\ accuracies[Str(e.model)].X[k][j].words = tokenize_text(data.test[k].text)

\* C3: the grid search of every evaluation is fitted on the embeddings and
\* labels of the train part alone, so the estimator it selects is the same
\* whatever the records of the test part are; the test embeddings and labels
\* enter only the score of the estimator already selected.
C3_TestOnlyScores ==
    /\ \A e \in Fitted : FittedOnTrainOnly(e) /\ SameWithoutTest(e)
    /\ \A e \in returned : ScoredOnTest(e)

\* a concatenated variant was scored on a test part of two records whose
\* texts and labels differ from each other
C3_Witness ==
    /\ \E e \in returned : e.model = <<1, 2>> /\ Len(e.best.X) = 2
    /\ Len(data.test) = 2
    /\ data.test[1].text # data.test[2].text
    /\ data.test[1].label # data.test[2].label

\* the items of models_by_name whose name starts with "Doc2Vec"
TrainedItems ==
    {k \in 1..Len(models_by_name) : StartsWith(models_by_name[k].name, "Doc2Vec")}

\* C5: model.train is called at most once for each of the three models and,
\* once the training loop is over, exactly once, with all epochs run; the
\* items of models_by_name the loop trains are exactly the three models, and
\* no train call runs while the concatenated variants are evaluated.
C5_TrainedOnce ==
    /\ \A m \in 1..NumModels : model_state[m].train_calls <= 1
    /\ pc \in {"train_loop", "train", "concat_loop", "done"} =>
          /\ Cardinality(TrainedItems) = 3
          /\ {models_by_name[k].model : k \in TrainedItems} = {<<1>>, <<2>>, <<3>>}
    /\ loop.second =>
          /\ \A m \in 1..NumModels :
                model_state[m].train_calls = 1 /\ model_state[m].epochs_done = Epochs
          /\ \A c \in in_progress : c.fn # "train"

\* the second concatenated variant is evaluated; every model was trained once
C5_Witness ==
    /\ loop.second
    /\ loop.i = 2
    /\ pc = "fit"
    /\ \A m \in 1..NumModels : model_state[m].train_calls = 1

\* the descriptions of the five variants, as the notebook printed them
FiveKeys ==
    {"Doc2Vec(dbow,d100,n5,mc2,t8)",
     "Doc2Vec(\"alpha=0.05\",dm/m,d100,n5,w10,mc2,t8)",
     "Doc2Vec(dm/c,d100,n5,w5,mc2,t8)",
     "Doc2Vec(dbow,d100,n5,mc2,t8)+Doc2Vec(\"alpha=0.05\",dm/m,d100,n5,w10,mc2,t8)",
     "Doc2Vec(dbow,d100,n5,mc2,t8)+Doc2Vec(dm/c,d100,n5,w5,mc2,t8)"}

\* C6: when the run is complete accuracies has exactly five keys, the
\* descriptions of the three models and of the two concatenated variants;
\* every evaluation that returned has its own key, with its own score, and
\* a key exists only for an evaluation that returned.
C6_FiveEntries ==
    /\ pc = "done" =>
          /\ DOMAIN accuracies = FiveKeys
          /\ Cardinality(DOMAIN accuracies) = 5
          /\ printed = accuracies
    /\ Cardinality(DOMAIN accuracies) = Cardinality(returned)
    /\ \A e \in returned :
          /\ Str(e.model) \in DOMAIN accuracies
          /\ accuracies[Str(e.model)] = EstimatorScore(e.best, e.X_test, e.Y_test)
    /\ \A key \in DOMAIN accuracies : \E e \in returned : Str(e.model) = key

\* the run is complete and the table was printed
C6_Witness ==
    /\ pc = "done"
    /\ Cardinality(DOMAIN printed) = 5
    /\ Cardinality(returned) = 5

\* C9: a library call that raises ends the run: the step in which it raises
\* changes neither accuracies nor what was printed nor any model, and no
\* step follows it.
C9_FailurePropagates ==
    [][/\ pc # "raised"
       /\ pc' = "raised" =>
             /\ in_progress # {}
             /\ accuracies' = accuracies
             /\ printed' = printed
             /\ models_by_name' = models_by_name
             /\ model_state' = model_state]_vars

\* the evaluation of a concatenated variant failed: the three entries
\* written before it are all the table holds
C9_Witness ==
    /\ pc = "raised"
    /\ loop.second
    /\ Cardinality(DOMAIN accuracies) = 3
    /\ printed = <<>>

\* the library call that runs at each position of the notebook
CallAt ==
    IF pc = "build_vocab" THEN {Call("build_vocab", Doc2Vec(loop.i))}
    ELSE IF pc = "train" THEN {Call("train", models_by_name[loop.i].model)}
    ELSE IF pc \in {"load", "infer", "fit", "score"}
         THEN {Call("train_lr_evaluate", ev.model)}
    ELSE {}

\* C10: at most one of the calls build_vocab, train and train_lr_evaluate is
\* in progress at any moment, the one the notebook's position names; between
\* two calls none is.
C10_OneCallAtATime ==
    /\ Cardinality(in_progress) <= 1
    /\ in_progress = CallAt

\* the train call of the second model is in the middle of its epochs
C10_Witness ==
    /\ in_progress = {Call("train", <<2>>)}
    /\ loop.epoch = 3

\* build_vocab was called for Doc2Vec m, scanned the corpus and returned
VocabBuilt(m) ==
    /\ model_state[m].corpus_count > 0
    /\ \E f \in fed : f.fn = "build_vocab" /\ f.model = m
    /\ Call("build_vocab", <<m>>) \notin in_progress

\* model.train was entered for some model
TrainingStarted ==
    \/ \E m \in 1..NumModels : model_state[m].train_calls > 0
    \/ \E c \in in_progress : c.fn = "train"

\* C11: when the first model.train call starts, build_vocab has returned for
\* all three models and both concatenated variants are in models_by_name;
\* the results are printed only after all five evaluations have returned.
C11_VocabThenTrainThenPrint ==
    /\ TrainingStarted =>
          /\ \A m \in 1..NumModels : VocabBuilt(m)
          /\ \A c \in in_progress : c.fn # "build_vocab"
          /\ \A n \in 1..Len(ConcatNames) :
                \E k \in 1..Len(models_by_name) :
                    /\ models_by_name[k].name = ConcatNames[n]
                    /\ models_by_name[k].model = ConcatOf[n]
    /\ (pc = "done" \/ DOMAIN printed # {}) =>
          /\ Cardinality(returned) = 5
          /\ {e.model : e \in returned} = {<<1>>, <<2>>, <<3>>, <<1, 2>>, <<1, 3>>}
          /\ in_progress = {}

\* the first train call has just been entered, after three vocabularies
C11_Witness ==
    /\ pc = "train"
    /\ loop.epoch = 0
    /\ \A m \in 1..NumModels : model_state[m].train_calls = (IF m = 1 THEN 1 ELSE 0)
    /\ Cardinality({f \in fed : f.fn = "build_vocab"}) >= 3

(***************************************************************************)
(* Claims about the grid search (SpecGrid)                                 *)
(***************************************************************************)
\* the twelve candidates: C in {0.0001, 0.001, 0.1, 1, 10, 100} times
\* penalty in {l1, l2}, solver liblinear
TwelveCandidates ==
    {[C |-> c, penalty |-> q, solver |-> "liblinear"] :
        c \in {"0.0001", "0.001", "0.1", "1", "10", "100"}, q \in {"l1", "l2"}}

\* params is a candidate of search whose score no other candidate exceeds
BestOf(search, params) ==
    \E b \in 1..Len(search.candidates) :
        /\ search.candidates[b] = params
        /\ \A k \in 1..Len(search.candidates) :
              search.mean_test_score[k] <= search.mean_test_score[b]

\* the search of evaluation e went over the twelve candidates, each scored
\* over five folds of the train embeddings, and selected a best one
SearchedTheGrid(e) ==
    /\ Len(e.search.candidates) = 12
    /\ Range(e.search.candidates) = TwelveCandidates
    /\ e.search.folds = 5
    /\ e.search.X = e.X_train
    /\ e.search.Y = e.Y_train
    /\ e.search.mean_test_score = cv_scores
    /\ BestOf(e.search, e.best.params)
    /\ e.best.X = e.X_train
    /\ e.best.Y = e.Y_train

\* C12: the grid search considers exactly 12 candidates, each scored over 5
\* folds of the train embeddings, and the value train_lr_evaluate returns is
\* the score, on the test embeddings and labels, of the candidate with the
\* best cross-validated score.
C12_ScoreOfBestCandidate ==
    /\ \A e \in Fitted : SearchedTheGrid(e)
    /\ \A e \in returned :
          /\ Str(e.model) \in DOMAIN accuracies
          /\ accuracies[Str(e.model)].of = "score"
          /\ accuracies[Str(e.model)].estimator = e.best
          /\ BestOf(e.search, accuracies[Str(e.model)].estimator.params)
          /\ accuracies[Str(e.model)].X = e.X_test
          /\ accuracies[Str(e.model)].Y = e.Y_test

\* the evaluation returned the score of the candidate (C=100, l1), the only
\* one with the highest score
C12_Witness ==
    /\ pc = "train_loop"
    /\ cv_scores[11] = 1
    /\ \A k \in 1..12 : k # 11 => cv_scores[k] = 0
    /\ \E e \in returned :
          /\ e.best.params = [C |-> "100", penalty |-> "l1", solver |-> "liblinear"]
          /\ accuracies[Str(e.model)].estimator.params = e.best.params

(***************************************************************************)
(* Claims about tokenize_text (SpecTok)                                    *)
(***************************************************************************)
\* a '<' followed, later in the same token, by a '>'
HasTagShape(tok) ==
    \E i, j \in 1..Len(tok) :
        i < j /\ CharAt(tok, i) = "<" /\ CharAt(tok, j) = ">"

\* C7: no token returned by tokenize_text contains a '<' followed, later in
\* the same token, by a '>'.
C7_NoTagInToken ==
    pc = "tokenized" => \A k \in 1..Len(tokens) : ~HasTagShape(tokens[k])

\* a text with an empty tag and a further '>' was cleaned and left tokens
C7_Witness ==
    /\ pc = "tokenized"
    /\ text = "a<>a>"
    /\ tokens = <<"a", "a>">>

\* the position of the nearest '>' at or after q, whatever lies before it, or 0
RECURSIVE NearestClose(_, _)
NearestClose(s, q) ==
    IF q > Len(s) THEN 0
    ELSE IF CharAt(s, q) = ">" THEN q
    ELSE NearestClose(s, q + 1)

\* the text from position p on without its spans from a '<' to the nearest
\* following '>'
RECURSIVE OutsideSpans(_, _)
OutsideSpans(s, p) ==
    IF p > Len(s) THEN ""
    ELSE IF CharAt(s, p) = "<" /\ NearestClose(s, p + 1) # 0
         THEN OutsideSpans(s, NearestClose(s, p + 1) + 1)
    ELSE CharAt(s, p) \o OutsideSpans(s, p + 1)

\* the characters of s that are not white space
RECURSIVE NonWhitespace(_)
NonWhitespace(s) ==
    IF s = "" THEN ""
    ELSE (IF CharAt(s, 1) \in Whitespace THEN "" ELSE CharAt(s, 1))
             \o NonWhitespace(SubSeq(s, 2, Len(s)))

\* the tokens one after the other
RECURSIVE Joined(_)
Joined(toks) == IF toks = <<>> THEN "" ELSE Head(toks) \o Joined(Tail(toks))

\* C13: every span of the text from a '<' to the nearest following '>',
\* line breaks inside it included, is removed: the returned tokens hold the
\* characters of the text outside these spans and no others.
C13_EverySpanRemoved ==
    pc = "tokenized" => Joined(tokens) = NonWhitespace(OutsideSpans(text, 1))

(***************************************************************************)
(* Claims about TxtCorpus (SpecCorpus)                                     *)
(***************************************************************************)
NoRepeat(l) == \A a, b \in 1..Len(l) : a # b => l[a] # l[b]

\* doc was made from record i (zero-based) of part and is tagged so
MadeFrom(doc, part, i) ==
    /\ i < Len(data[part])
    /\ doc.words = tokenize_text(data[part][i + 1].text)
    /\ doc.tags[1] = part \o "-" \o ToString(i)

\* C4: within one pass over a TxtCorpus whose parts list has no repeated
\* entry, every yielded document carries exactly one tag, '<part>-<i>' with i
\* the zero-based position of its record in the part, and no two yielded
\* documents carry the same tag.
C4_UniqueTags ==
    (pc = "corpus" /\ NoRepeat(td_reviews.parts)) =>
        /\ \A k \in 1..Len(consumed) :
              /\ Len(consumed[k].tags) = 1
              /\ \E q \in 1..Len(td_reviews.parts), i \in 0..MaxRecs :
                     MadeFrom(consumed[k], td_reviews.parts[q], i)
        /\ \A k, l \in 1..Len(consumed) :
              k # l => consumed[k].tags # consumed[l].tags

\* a complete pass over three different parts, two records of a part among
\* the documents
C4_Witness ==
    /\ pc = "corpus"
    /\ Len(td_reviews.parts) = 3
    /\ NoRepeat(td_reviews.parts)
    /\ gen.state = "stopped"
    /\ Len(consumed) >= 4
    /\ \E k \in 1..Len(consumed) : consumed[k].tags = <<"unsupervised-1">>

\* C8: iterating a TxtCorpus, any number of times, leaves its list contents
\* empty and its attributes tf_dataset and parts as they were; each step of
\* the generator hands over one document.
C8_IterationKeepsCorpus ==
    [][pc = "corpus" =>
          /\ td_reviews'.tf_dataset = td_reviews.tf_dataset
          /\ td_reviews'.parts = td_reviews.parts
          /\ Len(td_reviews'.items) = 0
          /\ Len(consumed') <= Len(consumed) + 1]_vars

\* the second pass over a corpus with documents ended
C8_Witness ==
    /\ pc = "corpus"
    /\ passes = 2
    /\ gen.state = "stopped"
    /\ Len(consumed) >= 2
    /\ Len(td_reviews.items) = 0

\* the documents of one part, in ascending index from 0
PartDocs(c, part) ==
    [k \in 1..Len(c.tf_dataset[part]) |->
        [words |-> tokenize_text(c.tf_dataset[part][k].text),
         tags  |-> <<part \o "-" \o ToString(k - 1)>>]]

\* the documents of the parts from number q on, in the order of the list
RECURSIVE InListedOrder(_, _)
InListedOrder(c, q) ==
    IF q > Len(c.parts) THEN <<>>
    ELSE PartDocs(c, c.parts[q]) \o InListedOrder(c, q + 1)

RECURSIVE SumOfSizes(_, _)
SumOfSizes(c, q) ==
    IF q > Len(c.parts) THEN 0
    ELSE Len(c.tf_dataset[c.parts[q]]) + SumOfSizes(c, q + 1)

\* C14: every pass starts at the beginning and yields the same sequence: the
\* parts in the order of the list, the records of a part in ascending index
\* from 0; what a pass has yielded so far is the beginning of that sequence,
\* a complete pass is all of it, as many documents as the parts have records.
C14_SamePassEveryTime ==
    (pc = "corpus" /\ gen.state # "none") =>
        /\ Len(consumed) <= SumOfSizes(td_reviews, 1)
        /\ consumed = SubSeq(InListedOrder(td_reviews, 1), 1, Len(consumed))
        /\ gen.state = "stopped" =>
              /\ consumed = InListedOrder(td_reviews, 1)
              /\ Len(consumed) = SumOfSizes(td_reviews, 1)

\* the second pass over a corpus that lists 'unsupervised' before 'train'
\* is complete
C14_Witness ==
    /\ pc = "corpus"
    /\ passes = 2
    /\ gen.state = "stopped"
    /\ td_reviews.parts = <<"unsupervised", "train">>
    /\ Len(consumed) = 4
    /\ consumed[1].tags = <<"unsupervised-0">>
    /\ consumed[4].tags = <<"train-1">>

====
